---- MODULE Spec2Model ----
(***************************************************************************)
(* Model of cellbedform.CellBedform (Nishimori & Ouchi cell model).        *)
(*                                                                         *)
(* Elevations and the parameters D, Q, L0, b are floats in the source;     *)
(* here they are exact rationals <<n, d>> (d > 0, lowest terms), so that   *)
(* a sum over the grid is "in exact arithmetic".  Index arrays are         *)
(* functions from cells <<i, j>> (i along X, j along Y) to integers.       *)
(***************************************************************************)
EXTENDS Integers, Sequences, FiniteSets, TLC

(* ---------------------------- bounds ----------------------------------- *)
\* largest grid dimension passed to the constructor
MaxDim == 4
\* the initial random grid is 0 except among its first MaxBumps cells
MaxBumps == 1
\* most calls of run_one_step on one engine
MaxSteps == 2

(* ------------------------ rational arithmetic -------------------------- *)
RECURSIVE GCD(_, _)
GCD(m, n) == IF n = 0 THEN m ELSE GCD(n, m % n)

Abs(n) == IF n < 0 THEN 0 - n ELSE n

\* the rational n/d (d > 0) in lowest terms
Rat(n, d) == LET g == GCD(Abs(n), d) IN <<n \div g, d \div g>>

RInt(k) == <<k, 1>>
Zero == RInt(0)

RAdd(p, q) == Rat(p[1] * q[2] + q[1] * p[2], p[2] * q[2])
RNeg(p) == <<0 - p[1], p[2]>>
RSub(p, q) == RAdd(p, RNeg(q))
RMul(p, q) == Rat(p[1] * q[1], p[2] * q[2])
RLess(p, q) == p[1] * q[2] < q[1] * p[2]

\* mutant of Round: rounds up
RoundUp(p) ==
    IF p[1] % p[2] = 0 THEN p[1] \div p[2] ELSE (p[1] \div p[2]) + 1

\* np.round: nearest integer, ties to the even one
Round(p) ==
    LET fl == p[1] \div p[2]
        r2 == 2 * (p[1] % p[2])
    IN  IF r2 < p[2] THEN fl
        ELSE IF r2 > p[2] THEN fl + 1
        ELSE IF fl % 2 = 0 THEN fl ELSE fl + 1

RECURSIVE RSum(_, _)
\* exact sum of the array a over the set S of cells
RSum(a, S) ==
    IF S = {} THEN Zero
    ELSE LET c == CHOOSE e \in S : TRUE IN RAdd(a[c], RSum(a, S \ {c}))

(* ------------------------------ inputs --------------------------------- *)
Dims == (0 - 1)..MaxDim
DVals == {Zero, Rat(4, 5)}
QVals == {Zero, Rat(3, 5)}
\* pairs <<L0, b>>
LbVals == {<<Rat(73, 10), RInt(2)>>, <<Rat(0 - 1, 5), RInt(2)>>,
           <<Rat(1, 2), RInt(0 - 1)>>}

Cells(X, Y) == (0..(X - 1)) \X (0..(Y - 1))

\* outcomes of np.random.rand(X, Y): values in [0, 1), here 0 or 1/2, the
\* 1/2 only among the first MaxBumps cells in row-major order
RandGrids(X, Y) ==
    {[c \in Cells(X, Y) |-> IF c \in S THEN Rat(1, 2) ELSE Zero] :
        S \in SUBSET {c \in Cells(X, Y) : c[1] * Y + c[2] < MaxBumps}}

\* an attribute not (yet) holding an array
NoArray == <<>>

VARIABLES
    pc,       \* "new", "failed", "ready", "run_loop", "run_plot"
    grid,     \* the grid argument of the constructor
    err,      \* the exception the constructor raised, or "none"
    xgrid, ygrid, D, Q, L0, b,
    h,        \* self.h
    L,        \* the local L of the last run_one_step
    dest,     \* self.dest
    x, y, xminus, xplus, yminus, yplus,
    surf,     \* self.surf: the grid drawn by the last _plot
    ims,      \* self.ims
    steps, i, \* run(): its argument and loop variable
    hs,       \* history: every value self.h has had, oldest first
    hdiff,    \* history: the grid after the diffusion phase of the last step
    run0      \* history: <<Len(hs), Len(ims)>> when run() was called

vars == <<pc, grid, err, xgrid, ygrid, D, Q, L0, b, h, L, dest, x, y,
          xminus, xplus, yminus, yplus, surf, ims, steps, i, hs, hdiff, run0>>

params == <<xgrid, ygrid, D, Q, L0, b>>
tables == <<x, y, xminus, xplus, yminus, yplus>>
runvars == <<steps, i, run0>>

Init ==
    /\ pc = "new"
    /\ grid = <<0, 0>>
    /\ err = "none"
    /\ xgrid = 0 /\ ygrid = 0
    /\ D = Zero /\ Q = Zero /\ L0 = Zero /\ b = Zero
    /\ h = NoArray /\ L = NoArray /\ dest = NoArray
    /\ x = NoArray /\ y = NoArray
    /\ xminus = NoArray /\ xplus = NoArray
    /\ yminus = NoArray /\ yplus = NoArray
    /\ surf = NoArray
    /\ ims = <<>>
    /\ steps = 0 /\ i = 0
    /\ hs = <<>>
    /\ hdiff = NoArray
    /\ run0 = <<0, 0>>

(* ---------------------------- __init__ --------------------------------- *)
\* mutant of InitError: an empty axis goes unnoticed
InitErrorNegativeOnly(X, Y) ==
    IF X < 0 \/ Y < 0 THEN "ValueError" ELSE "none"

\* the exception __init__ raises for grid = (X, Y), "none" if it returns
InitError(X, Y) ==
    IF X < 0 \/ Y < 0 THEN "ValueError"       \* np.random.rand
    ELSE IF X = 0 THEN "IndexError"           \* self.xminus[0, :] = ...
    ELSE IF Y = 0 THEN "IndexError"           \* self.yminus[:, 0] = ...
    ELSE "none"

XTable(X, Y) == [c \in Cells(X, Y) |-> c[1]]
YTable(X, Y) == [c \in Cells(X, Y) |-> c[2]]
\* mutant of XMinusTable: the first row is not wrapped
XMinusNoWrap(X, Y) == [c \in Cells(X, Y) |-> c[1] - 1]

XMinusTable(X, Y) ==
    [c \in Cells(X, Y) |-> IF c[1] = 0 THEN X - 1 ELSE c[1] - 1]
XPlusTable(X, Y) ==
    [c \in Cells(X, Y) |-> IF c[1] = X - 1 THEN 0 ELSE c[1] + 1]
YMinusTable(X, Y) ==
    [c \in Cells(X, Y) |-> IF c[2] = 0 THEN Y - 1 ELSE c[2] - 1]
YPlusTable(X, Y) ==
    [c \in Cells(X, Y) |-> IF c[2] = Y - 1 THEN 0 ELSE c[2] + 1]

Construct(X, Y, d, q, l0, bb, h0) ==
    /\ pc = "new"
    /\ grid' = <<X, Y>>
    /\ err' = InitError(X, Y)
    /\ IF InitError(X, Y) # "none"
       THEN /\ pc' = "failed"
            /\ UNCHANGED <<params, h, tables, hs>>
       ELSE /\ pc' = "ready"
            /\ xgrid' = X /\ ygrid' = Y
            /\ D' = d /\ Q' = q /\ L0' = l0 /\ b' = bb
            /\ h' = h0
            /\ x' = XTable(X, Y) /\ y' = YTable(X, Y)
            /\ xminus' = XMinusTable(X, Y) /\ xplus' = XPlusTable(X, Y)
            /\ yminus' = YMinusTable(X, Y) /\ yplus' = YPlusTable(X, Y)
            /\ hs' = <<h0>>
    /\ UNCHANGED <<L, dest, surf, ims, runvars, hdiff>>

ConstructAny ==
    \E X \in Dims, Y \in Dims, d \in DVals, q \in QVals, lb \in LbVals :
        \E h0 \in (IF InitError(X, Y) = "none" THEN RandGrids(X, Y)
                   ELSE {NoArray}) :
            Construct(X, Y, d, q, lb[1], lb[2], h0)

(* --------------------------- run_one_step ------------------------------ *)
\* hh[xi, yi] for index arrays xi, yi, at cell c
At(hh, xi, yi, c) == hh[<<xi[c], yi[c]>>]

\* the sum over the four adjacent grids, as written in the source
Orth(hh, c) ==
    RAdd(RAdd(At(hh, xplus, y, c), At(hh, xminus, y, c)),
         RAdd(At(hh, x, yplus, c), At(hh, x, yminus, c)))

\* the sum over the diagonal grids, as written in the source
Diag(hh, c) ==
    RAdd(RAdd(At(hh, xplus, yplus, c), At(hh, xplus, yminus, c)),
         RAdd(At(hh, xminus, yplus, c), At(hh, xminus, yplus, c)))

\* mutant of Diffuse: the diagonal sum is weighted 1/6 like the adjacent one
DiffuseDiagonalWeight(hh) ==
    [c \in DOMAIN hh |->
        RAdd(hh[c],
             RMul(D, RAdd(RAdd(RNeg(hh[c]), RMul(Rat(1, 6), Orth(hh, c))),
                          RMul(Rat(1, 6), Diag(hh, c)))))]

\* mutant of Diffuse: D scales only -h and the adjacent sum
DiffuseParenthesis(hh) ==
    [c \in DOMAIN hh |->
        RAdd(RAdd(hh[c],
                  RMul(D, RAdd(RNeg(hh[c]), RMul(Rat(1, 6), Orth(hh, c))))),
             RMul(Rat(1, 12), Diag(hh, c)))]

\* Rolling and sliding: the grid after the diffusion phase
Diffuse(hh) ==
    [c \in DOMAIN hh |->
        RAdd(hh[c],
             RMul(D, RAdd(RAdd(RNeg(hh[c]), RMul(Rat(1, 6), Orth(hh, c))),
                          RMul(Rat(1, 12), Diag(hh, c)))))]

\* mutant of SaltationLength: negative lengths are kept
SaltationLengthNoClamp(hh) ==
    [c \in DOMAIN hh |-> RAdd(L0, RMul(b, hh[c]))]

\* L = L0 + b h, with L < 0 replaced by 0
SaltationLength(hh) ==
    [c \in DOMAIN hh |->
        LET l == RAdd(L0, RMul(b, hh[c]))
        IN  IF RLess(l, Zero) THEN Zero ELSE l]

\* mutant of Destination: no periodic boundary
DestinationNoWrap(LL) ==
    [c \in DOMAIN LL |-> Round(RAdd(LL[c], RInt(x[c])))]

\* np.round(L + x) followed by np.mod(., xgrid)
Destination(LL) ==
    [c \in DOMAIN LL |-> Round(RAdd(LL[c], RInt(x[c]))) % xgrid]

Entrain(hh) == [c \in DOMAIN hh |-> RSub(hh[c], Q)]

\* mutant of SettleRow: the right-hand side is read at the source cells
SettleRowFromSource(hh, dd, j) ==
    [c \in DOMAIN hh |->
        IF \E k \in 0..(ygrid - 1) : c = <<dd[<<j, k>>], y[<<j, k>>]>>
        THEN RAdd(hh[<<j, c[2]>>], Q)
        ELSE hh[c]]

\* one pass of the settling loop: h[dest[j, :], y[j, :]] = (same) + Q
SettleRow(hh, dd, j) ==
    [c \in DOMAIN hh |->
        IF \E k \in 0..(ygrid - 1) : c = <<dd[<<j, k>>], y[<<j, k>>]>>
        THEN RAdd(hh[c], Q)
        ELSE hh[c]]

RECURSIVE Settle(_, _, _)
\* the settling loop from source column j on
Settle(hh, dd, j) ==
    IF j >= xgrid THEN hh ELSE Settle(SettleRow(hh, dd, j), dd, j + 1)

\* the assignments of run_one_step
StepVars ==
    LET hd == Diffuse(h)
        ll == SaltationLength(hd)
        dd == Destination(ll)
    IN  /\ hdiff' = hd
        /\ L' = ll
        /\ dest' = dd
        /\ h' = Settle(Entrain(hd), dd, 0)
        /\ hs' = Append(hs, h')

RunOneStep ==
    /\ pc = "ready"
    /\ Len(hs) <= MaxSteps
    /\ StepVars
    /\ UNCHANGED <<pc, grid, err, params, tables, surf, ims, runvars>>

(* -------------------------------- run ---------------------------------- *)
\* mutant of Plot: the surface is not redrawn
PlotStale == surf' = surf

\* _plot: draws the current grid
Plot == surf' = h

Run(n) ==
    /\ pc = "ready"
    /\ Len(hs) + n <= MaxSteps + 1
    /\ pc' = "run_loop"
    /\ steps' = n
    /\ i' = 0
    /\ run0' = <<Len(hs), Len(ims)>>
    /\ UNCHANGED <<grid, err, params, tables, h, L, dest, surf, ims,
                   hs, hdiff>>

\* loop body, first statement: self.run_one_step()
RunStep ==
    /\ pc = "run_loop"
    /\ i < steps
    /\ StepVars
    /\ pc' = "run_plot"
    /\ UNCHANGED <<grid, err, params, tables, surf, ims, runvars>>

\* loop body, rest: self._plot(); self.ims.append([self.surf])
RunPlot ==
    /\ pc = "run_plot"
    /\ Plot
    /\ ims' = Append(ims, <<surf'>>)
    /\ i' = i + 1
    /\ pc' = "run_loop"
    /\ UNCHANGED <<grid, err, params, tables, h, L, dest, steps, run0,
                   hs, hdiff>>

\* the loop is exhausted and run returns; its locals are gone
RunEnd ==
    /\ pc = "run_loop"
    /\ i >= steps
    /\ pc' = "ready"
    /\ steps' = 0 /\ i' = 0 /\ run0' = <<0, 0>>
    /\ UNCHANGED <<grid, err, params, tables, h, L, dest, surf, ims,
                   hs, hdiff>>

RunAny == \E n \in 0..MaxSteps : Run(n)

Next ==
    \/ ConstructAny
    \/ RunOneStep
    \/ RunAny
    \/ RunStep
    \/ RunPlot
    \/ RunEnd

Spec == Init /\ [][Next]_vars

(* ------------------------------ claims --------------------------------- *)
Constructed == pc \notin {"new", "failed"}
Stepped == Len(hs) >= 2
\* the grid before the last run_one_step
hpre == hs[Len(hs) - 1]
AllCells == Cells(xgrid, ygrid)
RNonNeg(p) == ~RLess(p, Zero)

\* the cell at offset (di, dj) from c on the torus
Wrap(c, di, dj) == <<(c[1] + di) % xgrid, (c[2] + dj) % ygrid>>

\* the diffusion formula with the four distinct diagonal neighbours
DiffuseDistinct(hh, c) ==
    LET orth == RAdd(RAdd(hh[Wrap(c, 1, 0)], hh[Wrap(c, 0 - 1, 0)]),
                     RAdd(hh[Wrap(c, 0, 1)], hh[Wrap(c, 0, 0 - 1)]))
        diag == RAdd(RAdd(hh[Wrap(c, 1, 1)], hh[Wrap(c, 1, 0 - 1)]),
                     RAdd(hh[Wrap(c, 0 - 1, 1)], hh[Wrap(c, 0 - 1, 0 - 1)]))
    IN  RAdd(hh[c],
             RMul(D, RAdd(RAdd(RNeg(hh[c]), RMul(Rat(1, 6), orth)),
                          RMul(Rat(1, 12), diag))))

\* C1: after every run_one_step, the grid after the diffusion phase is, at
\* every cell, h + D*(-h + (1/6)*(E+W+N+S) + (1/12)*(NE+NW+SE+SW)) of the
\* grid before the step, the four diagonal terms being the four distinct
\* cells (x+1,y+1), (x+1,y-1), (x-1,y+1), (x-1,y-1) with periodic wrapping.
C1_DiffusionFourDiagonals ==
    Stepped => \A c \in AllCells : hdiff[c] = DiffuseDistinct(hpre, c)

\* dest(j, k) = round(j + max(0, L0 + b*hd(j, k))) mod X
DestOf(hd, j, k) ==
    LET l == RAdd(L0, RMul(b, hd[<<j, k>>]))
        lc == IF RLess(l, Zero) THEN Zero ELSE l
    IN  Round(RAdd(RInt(j), lc)) % xgrid

\* the number of source columns of row c[2] whose destination is cell c
Sources(hd, c) ==
    Cardinality({j \in 0..(xgrid - 1) : DestOf(hd, j, c[2]) = c[1]})

\* C2: after every run_one_step, with hd the grid after the diffusion phase
\* and dest(j,y) = round(j + max(0, L0 + b*hd(j,y))) mod X, every cell (i,y)
\* holds hd(i,y) - Q + Q * (number of source columns j with dest(j,y) = i).
C2_SettlingAccumulates ==
    Stepped =>
        \A c \in AllCells :
            /\ dest[c] = DestOf(hdiff, c[1], c[2])
            /\ h[c] = RAdd(RSub(hdiff[c], Q),
                           RMul(Q, RInt(Sources(hdiff, c))))

\* C2 witness: a step with diffusion and entrainment on, in which two source
\* columns settled on one cell and the diffused grid gives a destination
\* that the grid before the step would not have given.
C2_Witness ==
    /\ Stepped /\ D # Zero /\ Q # Zero
    /\ \E c \in AllCells : Sources(hdiff, c) >= 2
    /\ \E c \in AllCells : DestOf(hpre, c[1], c[2]) # dest[c]

\* C3: with D = 0 the sum of all elevations after any number of steps is
\* the sum of the initial grid.
C3_PureSaltationConservesSum ==
    (Constructed /\ D = Zero) =>
        \A k \in 1..Len(hs) : RSum(hs[k], AllCells) = RSum(hs[1], AllCells)

\* C3 witness: two steps of pure saltation with entrainment on, where the
\* grid did change.
C3_Witness ==
    /\ Constructed /\ D = Zero /\ Q # Zero
    /\ Len(hs) >= 3 /\ hs[2] # hs[1] /\ hs[3] # hs[2]

\* C4 (as stated): construction with a dimension <= 0 fails with a
\* ConfigurationError and returns no engine.
C4_ConfigurationError ==
    (pc # "new" /\ (grid[1] <= 0 \/ grid[2] <= 0)) =>
        /\ pc = "failed"
        /\ err = "ConfigurationError"
        /\ h = NoArray

\* C4 (amended): construction with a dimension <= 0 fails, with a ValueError
\* when a dimension is negative and an IndexError otherwise, and returns no
\* engine.
C4_ConstructionFails ==
    (pc # "new" /\ (grid[1] <= 0 \/ grid[2] <= 0)) =>
        /\ pc = "failed"
        /\ err = (IF grid[1] < 0 \/ grid[2] < 0 THEN "ValueError"
                  ELSE "IndexError")
        /\ h = NoArray /\ hs = <<>>

\* C4 witness: construction failed on a grid with a zero dimension and no
\* negative one.
C4_Witness ==
    pc = "failed" /\ grid[1] > 0 /\ grid[2] = 0 /\ err = "IndexError"

\* C5: during run(steps=n), at the head of iteration i exactly i steps have
\* been made and exactly i frames appended since the call, frame k being the
\* grid after step k; between a step and its frame one more step than frames
\* has been made; the loop ends at i = n; run(0) changes nothing.
C5_RunStepsAndFrames ==
    /\ pc = "run_loop" =>
        /\ i <= steps
        /\ Len(hs) = run0[1] + i
        /\ Len(ims) = run0[2] + i
        /\ \A k \in 1..i : ims[run0[2] + k] = <<hs[run0[1] + k]>>
        /\ h = hs[run0[1] + i]
    /\ pc = "run_plot" =>
        /\ i < steps
        /\ Len(hs) = run0[1] + i + 1
        /\ Len(ims) = run0[2] + i

\* C5 witness: run(2) has finished its loop, its two frames differing.
C5_Witness ==
    /\ pc = "run_loop" /\ steps = 2 /\ i = 2
    /\ ims[Len(ims)] # ims[Len(ims) - 1]

\* C6: after every run_one_step the clamped saltation length of every cell
\* is >= 0 and its destination column is an integer in [0, X), so that the
\* settling write addresses a cell of the grid.
C6_LengthAndDestinationValid ==
    Stepped =>
        \A c \in AllCells :
            /\ RNonNeg(L[c])
            /\ dest[c] \in 0..(xgrid - 1)
            /\ <<dest[c], y[c]>> \in DOMAIN h

\* C6 witness: a step with negative L0 where L0 + b*h of the diffused grid
\* is negative at one cell and positive at another.
C6_Witness ==
    /\ Stepped /\ RLess(L0, Zero)
    /\ \E c \in AllCells : RLess(RAdd(L0, RMul(b, hdiff[c])), Zero)
    /\ \E c \in AllCells : RLess(Zero, RAdd(L0, RMul(b, hdiff[c])))

\* C7: with D = 0 and Q = 0 every step leaves every cell unchanged.
C7_ZeroParametersIdentity ==
    (Constructed /\ D = Zero /\ Q = Zero) =>
        \A k \in 1..Len(hs) : hs[k] = hs[1]

\* C7 witness: two steps with D = 0 and Q = 0 on a grid that is not flat.
C7_Witness ==
    /\ Constructed /\ D = Zero /\ Q = Zero /\ Len(hs) >= 3
    /\ \E c1 \in AllCells, c2 \in AllCells : h[c1] # h[c2]

\* C8: after construction and after any number of steps the four neighbour
\* tables hold the periodic neighbours (x-1) mod X, (x+1) mod X, (y-1) mod Y,
\* (y+1) mod Y, every entry within its dimension.
C8_NeighbourTablesPeriodic ==
    Constructed =>
        /\ xgrid >= 1 /\ ygrid >= 1
        /\ \A t \in {xminus, xplus, yminus, yplus} : DOMAIN t = AllCells
        /\ \A c \in AllCells :
            /\ xminus[c] = (c[1] - 1) % xgrid
            /\ xplus[c] = (c[1] + 1) % xgrid
            /\ yminus[c] = (c[2] - 1) % ygrid
            /\ yplus[c] = (c[2] + 1) % ygrid
            /\ {xminus[c], xplus[c]} \subseteq 0..(xgrid - 1)
            /\ {yminus[c], yplus[c]} \subseteq 0..(ygrid - 1)
            /\ c[2] = 0 => yminus[c] = ygrid - 1
            /\ c[2] = ygrid - 1 => yplus[c] = 0
            /\ c[1] = 0 => xminus[c] = xgrid - 1
            /\ c[1] = xgrid - 1 => xplus[c] = 0

\* C8 witness: two steps made on a grid with a single column of cells in one
\* direction and three in the other.
C8_Witness ==
    Constructed /\ Len(hs) >= 3 /\ xgrid = 1 /\ ygrid = 3

\* the 4x4 example: zero grid, D=0.8, Q=0.6, L0=7.3, b=2.0, one step made
C9Case ==
    /\ Constructed /\ xgrid = 4 /\ ygrid = 4
    /\ D = Rat(4, 5) /\ Q = Rat(3, 5) /\ L0 = Rat(73, 10) /\ b = RInt(2)
    /\ Len(hs) = 2
    /\ \A c \in AllCells : hs[1][c] = Zero

\* C9: in the 4x4 example the diffusion phase leaves every cell at 0,
\* entrainment makes every cell -0.6, and the final value of cell (i,y) is
\* -0.6 plus 0.6 for every source column j with round(j + 7.3) mod 4 = i,
\* where round(j + 7.3) = j + 7.
C9_ExampleGrid ==
    C9Case =>
        \A c \in AllCells :
            /\ hdiff[c] = Zero
            /\ Entrain(hdiff)[c] = Rat(0 - 3, 5)
            /\ dest[c] = (c[1] + 7) % 4
            /\ h[c] = RAdd(Rat(0 - 3, 5),
                           RMul(Rat(3, 5),
                                RInt(Cardinality({j \in 0..3 :
                                                    (j + 7) % 4 = c[1]}))))

\* C9 witness: the example after its step.
C9_Witness == C9Case /\ pc = "ready"

\* C10: for every D, Q, L0, b the sum of all elevations after any number of
\* steps is the sum of the initial grid.
C10_StepConservesSum ==
    Constructed =>
        \A k \in 1..Len(hs) : RSum(hs[k], AllCells) = RSum(hs[1], AllCells)

\* C10 witness: two steps with diffusion and entrainment on, each changing
\* the grid, from a grid that is not flat.
C10_Witness ==
    /\ Constructed /\ D # Zero /\ Q # Zero /\ Len(hs) >= 3
    /\ hdiff # hpre /\ h # hdiff
    /\ \E c1 \in AllCells, c2 \in AllCells : hs[1][c1] # hs[1][c2]
====
